---- MODULE Spec2Model ----
(***************************************************************************)
(* Grid-world MDP solver (Q-value iteration), noise models, robustness     *)
(* evaluator and transition-matrix builder.                                *)
(*                                                                         *)
(* Reals are fixed-point integers: a value x is the integer x * ESCALA,    *)
(* a probability or a discount factor p is the integer p * ProbUno.        *)
(* Grid coordinates are 0-based as in the source; MAPA_ESTADOS is a        *)
(* 1-based sequence of rows, so the cell (fila, col) is                    *)
(* MAPA_ESTADOS[fila + 1][col + 1].                                        *)
(***************************************************************************)
EXTENDS Integers, Sequences, FiniteSets, TLC

\* ------------------------------------------------------------- numbers
\* one unit of value: 1.0 = ESCALA (six decimal digits)
ESCALA == 1000 * 1000
\* one unit of probability / discount: 1.0 = ProbUno (percent)
ProbUno == 10 * 10
\* f64::NEG_INFINITY, below every value the tables can hold
NEG_INFINITY == -(2 ^ 30)

Abs(x) == IF x < 0 THEN -x ELSE x

\* ------------------------------------------------------------- config.rs
FILAS_MAPA == 6
COLUMNAS_MAPA == 8
ESTADO_META == "M"
ESTADOS_PELIGRO == {"P1", "P2", "P3", "P4"}
OBSTACULOS == {"O1", "O2", "O3", "O4", "O5", "O6", "O7", "O8", "O9", "O10"}

MAPA_ESTADOS ==
  << <<"S0",  "S1",  "P1",  "O1",  "S3",  "O2",  "S4",  "S5">>,
     <<"O3",  "S6",  "S7",  "S8",  "S9",  "S10", "S11", "O4">>,
     <<"S12", "P2",  "S14", "O5",  "S15", "P3",  "S17", "S18">>,
     <<"S19", "S20", "S21", "S22", "M",   "S24", "S25", "O6">>,
     <<"S26", "O7",  "O8",  "S27", "S28", "S29", "P4",  "S31">>,
     <<"S32", "O9",  "S33", "S34", "O10", "S35", "S36", "S37">> >>

Filas == 0 .. (FILAS_MAPA - 1)
Columnas == 0 .. (COLUMNAS_MAPA - 1)
Celda(fila, col) == MAPA_ESTADOS[fila + 1][col + 1]

\* every label of the map, and the labels the solver loops keep (lines 75-85);
\* Estados_ConObstaculos is the mutant without the filter of line 76
Etiquetas == {Celda(f, c) : f \in Filas, c \in Columnas}
Estados_ConObstaculos == Etiquetas
Estados == Etiquetas \ OBSTACULOS

\* row-major rank of a cell, the order in which the map is scanned
Rango(fila, col) == fila * COLUMNAS_MAPA + col

\* obtener_recompensas(): one entry per cell of the map, obstacles included
obtener_recompensas ==
  [e \in Etiquetas |->
     IF e = ESTADO_META THEN 10 * ESCALA
     ELSE IF e \in ESTADOS_PELIGRO THEN -(ESCALA \div 2)
     ELSE -(ESCALA \div 10)]

acciones == <<"N", "S", "E", "O">>
Acciones == {acciones[i] : i \in 1 .. Len(acciones)}

\* prob_transicion(): the default 0.8 / 0.1 / 0.1 model
prob_transicion ==
  ( "N" :> ("N" :> 80 @@ "E" :> 10 @@ "O" :> 10) @@
    "S" :> ("S" :> 80 @@ "E" :> 10 @@ "O" :> 10) @@
    "E" :> ("E" :> 80 @@ "N" :> 10 @@ "S" :> 10) @@
    "O" :> ("O" :> 80 @@ "N" :> 10 @@ "S" :> 10) )

\* ------------------------------------------------------------- mdp_model.rs
\* mutant: obstacle labels are reported as absent
obtener_posicion_SinObstaculos(estado) ==
  LET hits == {p \in Filas \X Columnas :
                 Celda(p[1], p[2]) = estado /\ estado \notin OBSTACULOS}
  IN  IF hits = {}
      THEN [ok |-> FALSE, pos |-> <<0, 0>>]
      ELSE [ok |-> TRUE,
            pos |-> CHOOSE p \in hits :
                      \A o \in hits : Rango(p[1], p[2]) <= Rango(o[1], o[2])]

\* mutant: the coordinates come back as (col, fila)
obtener_posicion_Traspuesta(estado) ==
  LET hits == {p \in Filas \X Columnas : Celda(p[1], p[2]) = estado}
  IN  IF hits = {}
      THEN [ok |-> FALSE, pos |-> <<0, 0>>]
      ELSE LET p == CHOOSE h \in hits :
                      \A o \in hits : Rango(h[1], h[2]) <= Rango(o[1], o[2])
           IN  [ok |-> TRUE, pos |-> <<p[2], p[1]>>]

\* obtener_posicion: the first cell in row-major order that carries the label
obtener_posicion(estado) ==
  LET hits == {p \in Filas \X Columnas : Celda(p[1], p[2]) = estado}
  IN  IF hits = {}
      THEN [ok |-> FALSE, pos |-> <<0, 0>>]
      ELSE [ok |-> TRUE,
            pos |-> CHOOSE p \in hits :
                      \A o \in hits : Rango(p[1], p[2]) <= Rango(o[1], o[2])]

\* Option::None of obtener_estado
None == "None"

\* mutant: the obstacle test of lines 27-28 left out
obtener_estado_SinObstaculos(fila, col) ==
  IF fila >= 0 /\ fila < FILAS_MAPA /\ col >= 0 /\ col < COLUMNAS_MAPA
  THEN Celda(fila, col)
  ELSE None

obtener_estado(fila, col) ==
  IF fila >= 0 /\ fila < FILAS_MAPA /\ col >= 0 /\ col < COLUMNAS_MAPA
  THEN IF Celda(fila, col) \in OBSTACULOS THEN None ELSE Celda(fila, col)
  ELSE None

\* mutant: North and South exchanged
mover_NS(fila, col, accion) ==
  CASE accion = "N" -> <<fila + 1, col>>
    [] accion = "S" -> <<fila - 1, col>>
    [] accion = "E" -> <<fila, col + 1>>
    [] accion = "O" -> <<fila, col - 1>>
    [] OTHER        -> <<fila, col>>

\* mutant: the step stops at row 0 and column 0
mover_Acotado(fila, col, accion) ==
  CASE accion = "N" -> <<IF fila = 0 THEN 0 ELSE fila - 1, col>>
    [] accion = "S" -> <<fila + 1, col>>
    [] accion = "E" -> <<fila, col + 1>>
    [] accion = "O" -> <<fila, IF col = 0 THEN 0 ELSE col - 1>>
    [] OTHER        -> <<fila, col>>

mover(fila, col, accion) ==
  CASE accion = "N" -> <<fila - 1, col>>
    [] accion = "S" -> <<fila + 1, col>>
    [] accion = "E" -> <<fila, col + 1>>
    [] accion = "O" -> <<fila, col - 1>>
    [] OTHER        -> <<fila, col>>

\* mutant: the unwrap_or fallback of lines 152-155 left out
CalcularDestino_SinPlegar(estado, resultado) ==
  LET pos == obtener_posicion(estado).pos
      nueva == mover(pos[1], pos[2], resultado)
  IN  obtener_estado(nueva[1], nueva[2])

\* lines 151-155: the destination of one effective direction, folded back to
\* the origin when the move leaves the map or enters an obstacle
CalcularDestino(estado, resultado) ==
  LET pos == obtener_posicion(estado).pos
      nueva == mover(pos[1], pos[2], resultado)
      dest == obtener_estado(nueva[1], nueva[2])
  IN  IF dest = None THEN estado ELSE dest

\* the map is constant: the destinations of the four directions, computed once
TablaDestinos ==
  [e \in Estados |-> [d \in Acciones |-> CalcularDestino(e, d)]]

EstadoDestino(estado, resultado) ==
  IF estado \in Estados /\ resultado \in Acciones
  THEN TablaDestinos[estado][resultado]
  ELSE CalcularDestino(estado, resultado)

\* the largest element of a non-empty set of numbers
Maximo(S) == CHOOSE m \in S : \A x \in S : m >= x

\* mutant: the entry of one fixed action instead of the row maximum
MaxValores_N(q_estado) == q_estado["N"]

\* fold(NEG_INFINITY, max) over the values of one row of the table
MaxValores(q_estado) ==
  Maximo({NEG_INFINITY} \cup {q_estado[a] : a \in DOMAIN q_estado})

\* the row maxima of a table, read by every backup of one sweep
MaximosPorEstado(q) == [e \in DOMAIN q |-> MaxValores(q[e])]

\* lines 158-165: max_a' Q(s', a'), 0.0 when the table has no row for s'
MaxQDestino(max_q, estado_destino) ==
  IF estado_destino \in DOMAIN max_q THEN max_q[estado_destino] ELSE 0

\* lines 147-168: q_valor, the sum over the entries of prob_accion
RECURSIVE SumaEsperada(_, _, _, _)
SumaEsperada(max_q, estado, prob_accion, pendientes) ==
  IF pendientes = {}
  THEN 0
  ELSE LET resultado == CHOOSE r \in pendientes : TRUE
       IN  prob_accion[resultado] * MaxQDestino(max_q, EstadoDestino(estado, resultado))
           + SumaEsperada(max_q, estado, prob_accion, pendientes \ {resultado})

\* x / d rounded to the nearest integer
Redondear(x, d) == (x + (d \div 2)) \div d

\* the product lambda * q_valor, back in units of ESCALA
Descontar(lambda, q_valor) == Redondear(lambda * Redondear(q_valor, ProbUno), ProbUno)

\* line 171: a missing reward is 0.0
Recompensa(estado) ==
  IF estado \in DOMAIN obtener_recompensas THEN obtener_recompensas[estado] ELSE 0

\* mutant: the discount is applied to the reward as well
QFinal_RecompensaDescontada(max_q, modelo, lambda, estado, accion) ==
  Descontar(lambda,
            Recompensa(estado)
            + SumaEsperada(max_q, estado, modelo[accion], DOMAIN modelo[accion]))

\* line 171: q_final = R(s) + lambda * q_valor
QFinal(max_q, modelo, lambda, estado, accion) ==
  Recompensa(estado)
  + Descontar(lambda, SumaEsperada(max_q, estado, modelo[accion], DOMAIN modelo[accion]))

\* lines 118-129: every Q(goal, a) of the new table is the goal's reward
FilaTerminal(estado) == [a \in Acciones |-> Recompensa(estado)]

\* lines 109-187: q_nuevo after one sweep over the map
QNuevo(q, modelo, lambda) ==
  LET max_q == MaximosPorEstado(q)
  IN  [e \in DOMAIN q |->
         IF e = ESTADO_META
         THEN FilaTerminal(e)
         ELSE [a \in Acciones |-> QFinal(max_q, modelo, lambda, e, a)]]

\* mutant: the backups read the table being written
TablaLeida_EnCurso(q, q_nuevo) == q_nuevo

\* line 158: the table the backups of a sweep read, q_valores; q_nuevo, its
\* clone of line 109, is only written
TablaLeida(q, q_nuevo) == q

\* lines 147-168 for one action, reading the rows of `tabla`
RECURSIVE SumaLeida(_, _, _, _)
SumaLeida(tabla, estado, prob_accion, pendientes) ==
  IF pendientes = {}
  THEN 0
  ELSE LET resultado == CHOOSE r \in pendientes : TRUE
           estado_destino == EstadoDestino(estado, resultado)
           max_q_destino == IF estado_destino \in DOMAIN tabla
                            THEN MaxValores(tabla[estado_destino])
                            ELSE 0
       IN  prob_accion[resultado] * max_q_destino
           + SumaLeida(tabla, estado, prob_accion, pendientes \ {resultado})

\* lines 112-187 state by state: the sweep visits the states of `orden` from
\* position i on, writing each row into q_nuevo
RECURSIVE BarridoEnOrden(_, _, _, _, _, _)
BarridoEnOrden(q, q_nuevo, modelo, lambda, orden, i) ==
  IF i > Len(orden)
  THEN q_nuevo
  ELSE LET estado == orden[i]
           fila == IF estado = ESTADO_META
                   THEN FilaTerminal(estado)
                   ELSE [a \in Acciones |->
                           Recompensa(estado)
                           + Descontar(lambda,
                                       SumaLeida(TablaLeida(q, q_nuevo), estado,
                                                 modelo[a], DOMAIN modelo[a]))]
       IN  BarridoEnOrden(q, [q_nuevo EXCEPT ![estado] = fila], modelo, lambda,
                          orden, i + 1)

\* mutant: the goal's entries are measured as well
EstadosActualizados_ConMeta == Estados

\* the entries a sweep backs up and measures: every state but the goal
EstadosActualizados == Estados \ {ESTADO_META}

\* mutant: the signed change, abs() forgotten
CambioEntrada_SinAbs(q, q_nuevo, estado, accion) ==
  q[estado][accion] - q_nuevo[estado][accion]

\* lines 174-179: |q_anterior - q_final| of one entry
CambioEntrada(q, q_nuevo, estado, accion) ==
  Abs(q[estado][accion] - q_nuevo[estado][accion])

\* lines 108, 174-179: delta starts at 0.0 and takes the max with the change
\* of every updated entry, i.e. the largest of 0 and those changes
DeltaBarrido(q, q_nuevo) ==
  Maximo({0} \cup
         {Maximo({CambioEntrada(q, q_nuevo, e, a) : a \in Acciones}) :
            e \in EstadosActualizados})

\* mutant: the loop stops at twice the threshold
Cambios_Doble(delta, epsilon) == delta > 2 * epsilon

\* line 190
Cambios(delta, epsilon) == delta > epsilon

\* ------------------------------------------------------------- robustness.rs
\* mutant: the East action takes the left deviation on both sides
construir_modelo_ruido_EE(f64IzqProb, f64CentroProb, f64DerProb) ==
  [sAccion \in {"N", "S", "E", "O"} |->
     CASE sAccion = "N" -> ("N" :> f64CentroProb @@ "E" :> f64DerProb @@ "O" :> f64IzqProb)
       [] sAccion = "S" -> ("S" :> f64CentroProb @@ "E" :> f64DerProb @@ "O" :> f64IzqProb)
       [] sAccion = "E" -> ("E" :> f64CentroProb @@ "N" :> f64IzqProb @@ "S" :> f64IzqProb)
       [] sAccion = "O" -> ("O" :> f64CentroProb @@ "N" :> f64IzqProb @@ "S" :> f64DerProb)]

\* mutant: the North action deviates left to the East and right to the West
construir_modelo_ruido_Espejo(f64IzqProb, f64CentroProb, f64DerProb) ==
  [sAccion \in {"N", "S", "E", "O"} |->
     CASE sAccion = "N" -> ("N" :> f64CentroProb @@ "E" :> f64IzqProb @@ "O" :> f64DerProb)
       [] sAccion = "S" -> ("S" :> f64CentroProb @@ "E" :> f64DerProb @@ "O" :> f64IzqProb)
       [] sAccion = "E" -> ("E" :> f64CentroProb @@ "N" :> f64IzqProb @@ "S" :> f64DerProb)
       [] sAccion = "O" -> ("O" :> f64CentroProb @@ "N" :> f64IzqProb @@ "S" :> f64DerProb)]

\* construir_modelo_ruido(izq, centro, der), lines 34-75
construir_modelo_ruido(f64IzqProb, f64CentroProb, f64DerProb) ==
  [sAccion \in {"N", "S", "E", "O"} |->
     CASE sAccion = "N" -> ("N" :> f64CentroProb @@ "E" :> f64DerProb @@ "O" :> f64IzqProb)
       [] sAccion = "S" -> ("S" :> f64CentroProb @@ "E" :> f64DerProb @@ "O" :> f64IzqProb)
       [] sAccion = "E" -> ("E" :> f64CentroProb @@ "N" :> f64IzqProb @@ "S" :> f64DerProb)
       [] sAccion = "O" -> ("O" :> f64CentroProb @@ "N" :> f64IzqProb @@ "S" :> f64DerProb)]

\* ARR_TPL_F64X3_MODELOS_RUIDO, lines 8-13
ARR_TPL_F64X3_MODELOS_RUIDO ==
  << <<10, 80, 10>>, <<5, 90, 5>>, <<15, 70, 15>>, <<25, 50, 25>> >>

\* ------------------------------------------------------------- transition_matrices.rs
\* row-major rank of the cell that carries a label
RangoDe(estado) ==
  LET pos == obtener_posicion(estado).pos IN Rango(pos[1], pos[2])

\* lines 26-31: the non-obstacle labels of the flattened map, in row-major order
vec_sEstados ==
  [i \in 1 .. Cardinality(Estados) |->
     CHOOSE e \in Estados :
       Cardinality({x \in Estados : RangoDe(x) < RangoDe(e)}) = i - 1]

\* lines 34-37: hm_s_uiEstadoAIndice
EstadoAIndice(estado) == CHOOSE i \in 1 .. Len(vec_sEstados) : vec_sEstados[i] = estado

\* mutant: only moves that leave the map fold back, obstacles are entered
DestinoMatriz_SinPlegar(origen, resultado) ==
  LET pos == obtener_posicion(origen).pos
      nueva == mover(pos[1], pos[2], resultado)
  IN  IF nueva[1] >= 0 /\ nueva[1] < FILAS_MAPA /\ nueva[2] >= 0 /\ nueva[2] < COLUMNAS_MAPA
      THEN Celda(nueva[1], nueva[2])
      ELSE origen

\* lines 51-56: the destination, folded back to the origin
DestinoMatriz(origen, resultado) ==
  LET dest == EstadoDestino(origen, resultado)
  IN  IF dest \in OBSTACULOS THEN origen ELSE dest

\* mutant: = instead of +=, one matching entry overwrites the others
MasaAcumulada_Sobrescribe(transiciones, origen, destino, pendientes) ==
  LET hits == {r \in pendientes : EstadoDestino(origen, r) = destino}
  IN  IF hits = {} THEN 0 ELSE transiciones[CHOOSE r \in hits : TRUE]

\* lines 45-60: matrix[origen][destino] += prob for every entry of the model
\* whose destination is destino
RECURSIVE MasaAcumulada(_, _, _, _)
MasaAcumulada(transiciones, origen, destino, pendientes) ==
  IF pendientes = {}
  THEN 0
  ELSE LET resultado == CHOOSE r \in pendientes : TRUE
       IN  (IF DestinoMatriz(origen, resultado) = destino
            THEN transiciones[resultado] ELSE 0)
           + MasaAcumulada(transiciones, origen, destino, pendientes \ {resultado})

\* lines 23-67: zeros when the model has no entry for sAccion
construir_matriz_transicion(sAccion) ==
  [o \in 1 .. Len(vec_sEstados) |->
     [d \in 1 .. Len(vec_sEstados) |->
        IF sAccion \in DOMAIN prob_transicion
        THEN MasaAcumulada(prob_transicion[sAccion], vec_sEstados[o], vec_sEstados[d],
                           DOMAIN prob_transicion[sAccion])
        ELSE 0]]

\* ------------------------------------------------------------- unordered tables
\* lines 74-85, 211: every row of the Q-table is a HashMap of its own, built
\* with its own RandomState, so the scan of a row reads its four entries in any
\* permutation of the actions, whatever the order of the other rows
Permutaciones ==
  {o \in [1 .. Len(acciones) -> Acciones] :
     \A i, j \in 1 .. Len(acciones) : o[i] = o[j] => i = j}

\* mutant: the scan keeps the entry it reads last
MejorEntrada_Ultima(q_estado, orden, i, mejor) ==
  [accion |-> orden[Len(orden)], q |-> q_estado[orden[Len(orden)]]]

\* lines 208-216: argmax scan of one row in a given order, strict >
RECURSIVE MejorEntrada(_, _, _, _)
MejorEntrada(q_estado, orden, i, mejor) ==
  IF i > Len(orden)
  THEN mejor
  ELSE MejorEntrada(q_estado, orden, i + 1,
         IF orden[i] \in DOMAIN q_estado /\ q_estado[orden[i]] > mejor.q
         THEN [accion |-> orden[i], q |-> q_estado[orden[i]]]
         ELSE mejor)

\* lines 208-209: mejor_accion = String::new(), mejor_q_valor = NEG_INFINITY
SinMejor == [accion |-> "", q |-> NEG_INFINITY]

\* lines 206-216: the scan of the row of `estado` read in `orden`
Mejor(q, orden, estado) ==
  MejorEntrada(q[estado], orden, 1, SinMejor)

\* the entries the scan of a row can end on, over the orders of the row
Mejores(q, estado) == {Mejor(q, o, estado) : o \in Permutaciones}

\* lines 200-223: the states that get a policy and a value entry
EstadosDerivados(q) == {e \in Estados : e \in DOMAIN q}

\* the rows whose scan ends on different entries under different orders
FilasEmpatadas(q) == {e \in EstadosDerivados(q) : Cardinality(Mejores(q, e)) > 1}

\* every way of giving each row of `filas` one of the entries its scan can end
\* on: the rows are scanned independently, so all combinations occur
RECURSIVE Elecciones(_, _)
Elecciones(q, filas) ==
  IF filas = {}
  THEN {<<>>}
  ELSE LET e == CHOOSE x \in filas : TRUE
       IN  {[x \in (DOMAIN f) \cup {e} |-> IF x = e THEN m ELSE f[x]] :
              f \in Elecciones(q, filas \ {e}), m \in Mejores(q, e)}

\* lines 198-223: the (action, value) pairs the scans can end on, one per
\* state: the only entry of a row without a tie, any maximal entry of a tied
\* row, whatever the other rows end on
Derivaciones(q) ==
  LET empatadas == FilasEmpatadas(q)
      unicas == [e \in EstadosDerivados(q) \ empatadas |-> Mejor(q, acciones, e)]
  IN  {[e \in EstadosDerivados(q) |-> IF e \in empatadas THEN f[e] ELSE unicas[e]] :
         f \in Elecciones(q, empatadas)}

\* lines 219-220: the value map and the policy of one derivation
DerivarPolitica(mejores) == [e \in DOMAIN mejores |-> mejores[e].accion]

DerivarValores(mejores) == [e \in DOMAIN mejores |-> mejores[e].q]

\* the actions the policy entry of a state can carry, and V(s), the value all
\* of them attain
AccionesMaximas(q, estado) == {m.accion : m \in Mejores(q, estado)}
ValorMaximo(q, estado) == Mejor(q, acciones, estado).q

\* ------------------------------------------------------------- value iteration
\* One sweep of value iteration: the goal is pinned to its reward and gets no
\* action; every other state takes the best backup over the actions in their
\* fixed order, strict >; delta is the largest change of a backed-up state.
FilaRespaldos(valores, modelo, lam, estado) ==
  [a \in Acciones |-> QFinal(valores, modelo, lam, estado, a)]

MejorVI(valores, modelo, lam, estado) ==
  MejorEntrada(FilaRespaldos(valores, modelo, lam, estado), acciones, 1, SinMejor)

ValoresNuevos(valores, modelo, lam) ==
  [e \in DOMAIN valores |->
     IF e = ESTADO_META THEN Recompensa(e) ELSE MejorVI(valores, modelo, lam, e).q]

PoliticaVI(valores, modelo, lam) ==
  [e \in (DOMAIN valores) \ {ESTADO_META} |-> MejorVI(valores, modelo, lam, e).accion]

DeltaVI(valores, nuevos) ==
  Maximo({0} \cup {Abs(valores[e] - nuevos[e]) : e \in (DOMAIN valores) \ {ESTADO_META}})

\* entry of value_iteration(lambda, epsilon, modelo): V(s) = 0
IniciarVI(lam, eps, modelo) ==
  [estado |-> "bucle", lambda |-> lam, epsilon |-> eps, modelo |-> modelo,
   valores |-> [e \in Estados |-> 0], politica |-> <<>>, delta |-> 0]

\* one sweep; the loop ends when delta <= epsilon and returns the new table
\* and the policy recorded in that sweep
PasoVI(v) ==
  LET nuevos == ValoresNuevos(v.valores, v.modelo, v.lambda)
      d == DeltaVI(v.valores, nuevos)
  IN  [v EXCEPT !.valores = nuevos,
                !.politica = PoliticaVI(v.valores, v.modelo, v.lambda),
                !.delta = d,
                !.estado = IF d <= v.epsilon THEN "hecho" ELSE "bucle"]

\* no value_iteration call yet
SinVI ==
  [estado |-> "libre", lambda |-> 0, epsilon |-> 0, modelo |-> <<>>,
   valores |-> <<>>, politica |-> <<>>, delta |-> 0]

\* ------------------------------------------------------------- robustness.rs, evaluar_robustez
\* mutant: an entry missing from the adapted policy is not a change
EsCambio_NoneFalso(politica_adaptada, sStateKey, sOriginalActionValue) ==
  IF sStateKey \in DOMAIN politica_adaptada
  THEN politica_adaptada[sStateKey] /= sOriginalActionValue
  ELSE FALSE

\* lines 108-118: the number of entries of the baseline whose adapted action
\* differs, an entry missing from the adapted policy counting as a change
EsCambio(politica_adaptada, sStateKey, sOriginalActionValue) ==
  IF sStateKey \in DOMAIN politica_adaptada
  THEN politica_adaptada[sStateKey] /= sOriginalActionValue
  ELSE TRUE

ContarCambios(politica_base_, politica_adaptada) ==
  Cardinality({k \in DOMAIN politica_base_ :
                 EsCambio(politica_adaptada, k, politica_base_[k])})

\* line 106: the threshold evaluar_robustez hands to value_iteration, 0.01
EpsilonRobustez == ESCALA \div 100

\* lines 99-101: the model of the catalogue entry i
ModeloCatalogo(i) ==
  construir_modelo_ruido(ARR_TPL_F64X3_MODELOS_RUIDO[i][1],
                         ARR_TPL_F64X3_MODELOS_RUIDO[i][2],
                         ARR_TPL_F64X3_MODELOS_RUIDO[i][3])

\* line 100: the label carries the centre probability as a percentage
Etiqueta(i) == ARR_TPL_F64X3_MODELOS_RUIDO[i][2]

\* ------------------------------------------------------------- inputs
\* main.rs line 35: the discount factors main solves for
factores_landa == {86, 90, 94, 98}

\* discount factors and thresholds the solvers are run with
Lambdas == factores_landa \cup {50, 99}
Epsilons == {ESCALA \div 1000, ESCALA \div 100, ESCALA \div 10, ESCALA}

\* sweeps of one q_value_iteration call the model follows
MaxBarridos == 60

\* noise triples: deviations of 0, 5, ..., 5 * MaxDesvio percent on each side
MaxDesvio == 6
Desvios == {5 * k : k \in 0 .. MaxDesvio}
Triples == {<<l, ProbUno - l - r, r>> : l \in Desvios, r \in Desvios}

Catalogo == {ARR_TPL_F64X3_MODELOS_RUIDO[i] : i \in 1 .. Len(ARR_TPL_F64X3_MODELOS_RUIDO)}

\* external models that lack an action or an effective direction
SinAccion(modelo, a) == [x \in (DOMAIN modelo) \ {a} |-> modelo[x]]
SinDireccion(modelo, a, d) ==
  [x \in DOMAIN modelo |->
     IF x = a THEN [y \in (DOMAIN modelo[x]) \ {d} |-> modelo[x][y]] ELSE modelo[x]]
ModelosIncompletos ==
  {SinAccion(prob_transicion, "O"), SinDireccion(prob_transicion, "N", "E")}

\* Option::None of prob_transicion_externa
SinModelo == <<>>

\* The calls the driver follows sweep by sweep and policy by policy: those that
\* return a table with few tied rows.  A threshold of 0.5 or more ends the loop
\* on the all-zero table, whose 38 tied rows give 4 ^ 38 policies, and 0.1 at
\* lambda = 0.5 on a table with up to nine tied rows; the driver follows those
\* calls as a whole, the policies as the set of actions of each row.
Llamadas ==
  {ll \in Lambdas \X Epsilons : ll[2] < ESCALA \div 2 /\ ll # <<50, ESCALA \div 10>>}
LlamadasEnteras == (Lambdas \X Epsilons) \ Llamadas

\* lines 105-195: the sweeps of a call from the table q, left by n sweeps; the
\* call returns the table the sweep that ends the loop has read
RECURSIVE TablaRetornada(_, _, _, _, _)
TablaRetornada(q, modelo, lam, eps, n) ==
  LET q_nuevo == QNuevo(q, modelo, lam)
  IN  IF Cambios(DeltaBarrido(q, q_nuevo), eps) /\ n + 1 < MaxBarridos
      THEN TablaRetornada(q_nuevo, modelo, lam, eps, n + 1)
      ELSE q

\* lines 56-226: q_value_iteration(lambda, epsilon, prob_transicion_externa)
\* for a model that has the four actions: the returned table, the returned
\* value map and, for every state, the actions its policy entry can be (the
\* returned policy is any combination of them)
q_value_iteration(lam, eps, externa) ==
  LET modelo == IF externa = SinModelo THEN prob_transicion ELSE externa
      q == TablaRetornada([e \in Estados |-> [a \in Acciones |-> 0]], modelo, lam, eps, 0)
  IN  [q_valores |-> q,
       v_valores |-> [e \in EstadosDerivados(q) |-> ValorMaximo(q, e)],
       politicas |-> [e \in EstadosDerivados(q) |-> AccionesMaximas(q, e)]]

\* baselines handed to evaluar_robustez: the solver's policy, whole or without
\* its hazard and goal entries
Restringir(f, S) == [k \in (DOMAIN f) \cap S |-> f[k]]
PoliticasBase(pol) == {pol, Restringir(pol, Estados \ (ESTADOS_PELIGRO \cup {ESTADO_META}))}

\* arguments of the map utilities: cells up to MaxFuera steps outside the map,
\* labels of the map and labels it does not have, actions and other symbols
MaxFuera == 2
FilasConsulta == (0 - MaxFuera) .. (FILAS_MAPA - 1 + MaxFuera)
ColumnasConsulta == (0 - MaxFuera) .. (COLUMNAS_MAPA - 1 + MaxFuera)
EtiquetasAusentes == {"S2", "S38", "O11", "m", ""}
SimbolosDesconocidos == {"X", "n", ""}

\* no utility has been called
SinLlamada == [op |-> ""]

\* ------------------------------------------------------------- simulation.rs
\* mutant: East and West exchanged
mover_simulacion_EO(uiFila, uiCol, sAccion) ==
  CASE sAccion = "N" -> <<IF uiFila = 0 THEN 0 ELSE uiFila - 1, uiCol>>
    [] sAccion = "S" -> <<uiFila + 1, uiCol>>
    [] sAccion = "E" -> <<uiFila, IF uiCol = 0 THEN 0 ELSE uiCol - 1>>
    [] sAccion = "O" -> <<uiFila, uiCol + 1>>
    [] OTHER         -> <<uiFila, uiCol>>

\* lines 153-161: the simulation's own mover, saturating_sub at row and column 0
mover_simulacion(uiFila, uiCol, sAccion) ==
  CASE sAccion = "N" -> <<IF uiFila = 0 THEN 0 ELSE uiFila - 1, uiCol>>
    [] sAccion = "S" -> <<uiFila + 1, uiCol>>
    [] sAccion = "E" -> <<uiFila, uiCol + 1>>
    [] sAccion = "O" -> <<uiFila, IF uiCol = 0 THEN 0 ELSE uiCol - 1>>
    [] OTHER         -> <<uiFila, uiCol>>

\* mutant: the goal is not filtered out of the start states
vec_sEstadosValidos_ConMeta == Etiquetas \ OBSTACULOS

\* lines 184-189: the states a walk starts from, neither goal nor obstacle
vec_sEstadosValidos == {e \in Etiquetas : e # ESTADO_META /\ e \notin OBSTACULOS}

\* lines 218-228: the state after following sAccion from sEstadoActual
SiguienteEstado(sEstadoActual, sAccion) ==
  LET r == obtener_posicion(sEstadoActual)
  IN  IF ~r.ok
      THEN sEstadoActual
      ELSE LET nueva == mover_simulacion(r.pos[1], r.pos[2], sAccion)
               e == obtener_estado(nueva[1], nueva[2])
           IN  IF e = None THEN sEstadoActual ELSE e

\* policies handed to the simulation: the same action everywhere (a symbol
\* that is no action among them) and a policy without an entry for S21
MaxPasos == 3
PoliticaConstante(a) == [e \in Estados |-> a]
PoliticasSimulacion ==
  {PoliticaConstante(a) : a \in Acciones \cup {"X"}}
  \cup {[e \in Estados \ {"S21"} |-> "E"]}

\* no simulation has been run
SinSimulacion == [estado |-> ""]

\* ------------------------------------------------------------- state
VARIABLES
  pc,          \* position of the driver
  ruido,       \* the noise triple the external model was built from, or <<>>
  prob_transicion_externa, \* the model handed to the solver, or SinModelo
  lambda,      \* the discount factor of the solver calls
  epsilon,     \* the threshold of the solver calls
  q_valores,
  delta,       \* delta of the last sweep of q_value_iteration
  barridos,    \* sweeps of the running q_value_iteration call so far
  politica,
  v_valores,
  vi,          \* the running or last value_iteration call
  politica_base, \* ref_hm_s_sPoliticaBase of evaluar_robustez
  origen_base, \* the solver the caller took the baseline from: "qvi" or "vi"
  indice,      \* position in ARR_TPL_F64X3_MODELOS_RUIDO
  resultados,  \* vec_tpl_s_uiResultados
  accion_matriz, \* sAccion of construir_matriz_transicion
  matriz,      \* arr2_f32Matriz
  llamada,     \* the last call of a map utility: its arguments and result
  sim          \* the locals of the running or last simulacion_1000_pasos call

vars == <<pc, ruido, prob_transicion_externa, lambda, epsilon,
          q_valores, delta, barridos, politica, v_valores, vi, politica_base,
          origen_base, indice,
          resultados, accion_matriz, matriz, llamada, sim>>

varsQVI == <<lambda, epsilon, q_valores, delta, barridos, politica, v_valores>>
varsRobustez == <<politica_base, origen_base, indice, resultados>>
varsMatriz == <<accion_matriz, matriz>>

Init ==
  /\ pc = "inicio"
  /\ ruido = <<>>
  /\ prob_transicion_externa = SinModelo
  /\ lambda = 0
  /\ epsilon = 0
  /\ q_valores = <<>>
  /\ delta = 0
  /\ barridos = 0
  /\ politica = <<>>
  /\ v_valores = <<>>
  /\ vi = SinVI
  /\ politica_base = <<>>
  /\ origen_base = ""
  /\ indice = 0
  /\ resultados = <<>>
  /\ accion_matriz = ""
  /\ matriz = <<>>
  /\ llamada = SinLlamada
  /\ sim = SinSimulacion

\* a caller builds a noise model
ConstruirModelo ==
  /\ pc = "inicio"
  /\ \E t \in Triples :
       /\ ruido' = t
       /\ prob_transicion_externa' = construir_modelo_ruido(t[1], t[2], t[3])
  /\ pc' = "modelo"
  /\ UNCHANGED <<varsQVI, vi, varsRobustez, varsMatriz, llamada, sim>>

\* a caller hands over a model of its own that lacks an entry
ModeloIncompleto ==
  /\ pc = "inicio"
  /\ prob_transicion_externa' \in ModelosIncompletos
  /\ pc' = "modelo"
  /\ UNCHANGED <<ruido, varsQVI, vi, varsRobustez, varsMatriz, llamada, sim>>

\* the discount factors and thresholds of a q_value_iteration call: those
\* value_iteration has just been run with, or, when the solver is the first
\* call, any factor and the threshold main passes (main.rs lines 52 and 129)
LambdasDeLlamada == IF pc = "vi_hecho" THEN {lambda} ELSE Lambdas
EpsilonsDeLlamada == IF pc = "vi_hecho" THEN {epsilon} ELSE {ESCALA \div 1000}

\* lines 65-103: entry of q_value_iteration, all Q-values zero. The solver is
\* run without a model, under a catalogue model or under an incomplete model,
\* as the first call of the driver or on the inputs value_iteration has just
\* been run with.
LlamarQVI ==
  /\ \/ pc = "inicio"
     \/ pc = "modelo" /\ (ruido = <<>> \/ ruido \in Catalogo)
     \/ pc = "vi_hecho"
  /\ \E l \in LambdasDeLlamada, eps \in EpsilonsDeLlamada :
       /\ lambda' = l
       /\ epsilon' = eps
  /\ q_valores' = [e \in Estados |-> [a \in Acciones |-> 0]]
  /\ barridos' = 0
  /\ pc' = "qvi"
  /\ UNCHANGED <<ruido, prob_transicion_externa, delta, politica,
                 v_valores, vi, varsRobustez, varsMatriz, llamada, sim>>

\* a whole call of q_value_iteration, from entry to return, without a model or
\* under a catalogue model
LlamarQVIEntera ==
  /\ pc = "inicio"
  /\ \E ll \in LlamadasEnteras, externa \in {SinModelo} \cup {ModeloCatalogo(i) : i \in 1 .. Len(ARR_TPL_F64X3_MODELOS_RUIDO)} :
       llamada' = [op |-> "q_value_iteration", lambda |-> ll[1], epsilon |-> ll[2],
                   prob_transicion_externa |-> externa,
                   res |-> q_value_iteration(ll[1], ll[2], externa)]
  /\ pc' = "consulta"
  /\ UNCHANGED <<ruido, prob_transicion_externa, varsQVI, vi, varsRobustez, varsMatriz, sim>>

\* lines 88-103, 138-145: the model the sweeps read
ModeloEnUso ==
  IF prob_transicion_externa = SinModelo THEN prob_transicion ELSE prob_transicion_externa

\* lines 107-195 (one iteration of the loop) and, on convergence, 197-225:
\* the scans of lines 211-216 read every row in an order of its own.  The loop
\* has no iteration cap; the model stops counting at MaxBarridos sweeps.
Barrido ==
  /\ pc = "qvi"
  /\ barridos < MaxBarridos
  /\ IF \E a \in Acciones : a \notin DOMAIN ModeloEnUso
     THEN \* line 139: unwrap() of a missing action
          /\ pc' = "panic"
          /\ UNCHANGED <<q_valores, delta, barridos, politica, v_valores>>
     ELSE LET q_nuevo == QNuevo(q_valores, ModeloEnUso, lambda)
              d == DeltaBarrido(q_valores, q_nuevo)
          IN  /\ delta' = d
              /\ barridos' = barridos + 1
              /\ IF Cambios(d, epsilon)
                 THEN /\ q_valores' = q_nuevo
                      /\ pc' = "qvi"
                      /\ UNCHANGED <<politica, v_valores>>
                 ELSE /\ pc' = "hecho"
                      /\ \E mejores \in Derivaciones(q_valores) :
                           /\ politica' = DerivarPolitica(mejores)
                           /\ v_valores' = DerivarValores(mejores)
                      /\ UNCHANGED q_valores
  /\ UNCHANGED <<ruido, prob_transicion_externa, lambda, epsilon, vi,
                 varsRobustez, varsMatriz, llamada, sim>>

\* entry of value_iteration, without a model or under a model that has the
\* four actions; a caller that compares the solvers runs q_value_iteration on
\* the same inputs next
LlamarVI ==
  /\ \/ pc = "inicio"
     \/ /\ pc = "modelo"
        /\ (ruido = <<>> \/ ruido \in Catalogo)
        /\ \A a \in Acciones : a \in DOMAIN prob_transicion_externa
  /\ \E ll \in Llamadas :
       /\ lambda' = ll[1]
       /\ epsilon' = ll[2]
       /\ vi' = IniciarVI(ll[1], ll[2], ModeloEnUso)
  /\ pc' = "vi"
  /\ UNCHANGED <<ruido, prob_transicion_externa, q_valores, delta, barridos, politica,
                 v_valores, varsRobustez, varsMatriz, llamada, sim>>

BarridoVI ==
  /\ pc = "vi"
  /\ vi' = PasoVI(vi)
  /\ pc' = IF vi'.estado = "hecho" THEN "vi_hecho" ELSE "vi"
  /\ UNCHANGED <<ruido, prob_transicion_externa, varsQVI, varsRobustez, varsMatriz, llamada, sim>>

\* lines 93-106: entry of evaluar_robustez and the first catalogue model; the
\* baseline is a policy solved under the default model with threshold 0.001
EvaluarRobustez ==
  /\ pc = "hecho"
  /\ prob_transicion_externa = SinModelo
  /\ epsilon = ESCALA \div 1000
  /\ politica_base' \in PoliticasBase(politica)
  /\ origen_base' = "qvi"
  /\ indice' = 1
  /\ resultados' = <<>>
  /\ vi' = IniciarVI(lambda, EpsilonRobustez, ModeloCatalogo(1))
  /\ pc' = "robustez"
  /\ UNCHANGED <<ruido, prob_transicion_externa, varsQVI, varsMatriz, llamada, sim>>

\* lines 93-106 with the baseline a caller took from value_iteration, run
\* under the default model with the threshold evaluar_robustez uses
EvaluarRobustezVI ==
  /\ pc = "vi_hecho"
  /\ prob_transicion_externa = SinModelo
  /\ vi.epsilon = EpsilonRobustez
  /\ politica_base' = vi.politica
  /\ origen_base' = "vi"
  /\ indice' = 1
  /\ resultados' = <<>>
  /\ vi' = IniciarVI(lambda, EpsilonRobustez, ModeloCatalogo(1))
  /\ pc' = "robustez"
  /\ UNCHANGED <<ruido, prob_transicion_externa, varsQVI, varsMatriz, llamada, sim>>

\* line 106: one sweep of the value_iteration call of the current catalogue
\* entry; when it returns, lines 108-121 count the changes and push the result
BarridoRobustez ==
  /\ pc = "robustez"
  /\ vi.estado = "bucle"
  /\ vi' = PasoVI(vi)
  /\ resultados' =
       IF vi'.estado = "hecho"
       THEN Append(resultados, <<Etiqueta(indice), ContarCambios(politica_base, vi'.politica)>>)
       ELSE resultados
  /\ UNCHANGED <<pc, ruido, prob_transicion_externa, varsQVI, politica_base,
                 origen_base, indice, varsMatriz, llamada, sim>>

\* mutant: the baseline takes over the adapted actions before the next entry
SiguienteModelo_Adopta ==
  /\ pc = "robustez"
  /\ vi.estado = "hecho"
  /\ IF indice < Len(ARR_TPL_F64X3_MODELOS_RUIDO)
     THEN /\ indice' = indice + 1
          /\ vi' = IniciarVI(lambda, EpsilonRobustez, ModeloCatalogo(indice + 1))
          /\ pc' = "robustez"
     ELSE /\ pc' = "robustez_hecho"
          /\ UNCHANGED <<indice, vi>>
  /\ politica_base' =
       [k \in DOMAIN politica_base |->
          IF k \in DOMAIN vi.politica THEN vi.politica[k] ELSE politica_base[k]]
  /\ UNCHANGED <<ruido, prob_transicion_externa, varsQVI, origen_base,
                 resultados, varsMatriz, llamada, sim>>

\* line 99: the next catalogue entry, or lines 124: return
SiguienteModelo ==
  /\ pc = "robustez"
  /\ vi.estado = "hecho"
  /\ IF indice < Len(ARR_TPL_F64X3_MODELOS_RUIDO)
     THEN /\ indice' = indice + 1
          /\ vi' = IniciarVI(lambda, EpsilonRobustez, ModeloCatalogo(indice + 1))
          /\ pc' = "robustez"
     ELSE /\ pc' = "robustez_hecho"
          /\ UNCHANGED <<indice, vi>>
  /\ UNCHANGED <<ruido, prob_transicion_externa, varsQVI, politica_base,
                 origen_base, resultados, varsMatriz, llamada, sim>>

\* construir_matriz_transicion(sAccion), for the four actions and an unknown one
ConstruirMatriz ==
  /\ pc = "inicio"
  /\ \E a \in Acciones \cup {"X"} :
       /\ accion_matriz' = a
       /\ matriz' = construir_matriz_transicion(a)
  /\ pc' = "matriz"
  /\ UNCHANGED <<ruido, prob_transicion_externa, varsQVI, vi, varsRobustez, llamada, sim>>

\* a caller asks for the label of a cell
ObtenerEstado ==
  /\ pc = "inicio"
  /\ \E fila \in FilasConsulta, col \in ColumnasConsulta :
       llamada' = [op |-> "obtener_estado", fila |-> fila, col |-> col,
                   res |-> obtener_estado(fila, col)]
  /\ pc' = "consulta"
  /\ UNCHANGED <<ruido, prob_transicion_externa, varsQVI, vi, varsRobustez, varsMatriz, sim>>

\* a caller asks for the cell of a label; the Result comes back as a value
ObtenerPosicion ==
  /\ pc = "inicio"
  /\ \E estado \in Etiquetas \cup EtiquetasAusentes :
       llamada' = [op |-> "obtener_posicion", estado |-> estado,
                   res |-> obtener_posicion(estado)]
  /\ pc' = "consulta"
  /\ UNCHANGED <<ruido, prob_transicion_externa, varsQVI, vi, varsRobustez, varsMatriz, sim>>

\* a caller steps from a cell (usize coordinates) in a direction
Mover ==
  /\ pc = "inicio"
  /\ \E fila \in 0 .. (FILAS_MAPA - 1 + MaxFuera), col \in 0 .. (COLUMNAS_MAPA - 1 + MaxFuera),
        accion \in Acciones \cup SimbolosDesconocidos :
       llamada' = [op |-> "mover", fila |-> fila, col |-> col, accion |-> accion,
                   res |-> mover(fila, col, accion)]
  /\ pc' = "consulta"
  /\ UNCHANGED <<ruido, prob_transicion_externa, varsQVI, vi, varsRobustez, varsMatriz, sim>>

\* a step of the simulation's own mover from a cell
MoverSimulacion ==
  /\ pc = "inicio"
  /\ \E fila \in 0 .. (FILAS_MAPA - 1 + MaxFuera), col \in 0 .. (COLUMNAS_MAPA - 1 + MaxFuera),
        accion \in Acciones \cup SimbolosDesconocidos :
       llamada' = [op |-> "mover_simulacion", fila |-> fila, col |-> col, accion |-> accion,
                   res |-> mover_simulacion(fila, col, accion)]
  /\ pc' = "consulta"
  /\ UNCHANGED <<ruido, prob_transicion_externa, varsQVI, vi, varsRobustez, varsMatriz, sim>>

\* the policies a caller hands to the simulation: one of its own, or, as main
\* does, the one q_value_iteration has just returned
PoliticasDelLlamador ==
  IF pc = "hecho" THEN {politica} ELSE PoliticasSimulacion

\* main.rs lines 52 and 128-129: main solves, as its first solver call, for a
\* factor of factores_landa with the threshold 0.001, without a model or under
\* a catalogue model
LlamadaDeMain ==
  /\ lambda \in factores_landa
  /\ epsilon = ESCALA \div 1000
  /\ (prob_transicion_externa = SinModelo \/ ruido \in Catalogo)
  /\ vi = SinVI

\* lines 180-198: entry of simulacion_1000_pasos, a random valid start state;
\* main.rs lines 59 and 133 hand it the policy of the solver call before
IniciarSimulacion ==
  /\ \/ pc = "inicio"
     \/ pc = "hecho" /\ LlamadaDeMain
  /\ \E pol \in PoliticasDelLlamador, max \in 0 .. MaxPasos, inicio \in vec_sEstadosValidos :
       sim' = [ref_hm_s_sPolitica |-> pol, uiMaxPasos |-> max, sEstadoActual |-> inicio,
               paso |-> 0, uiLlegoMetaCount |-> 0, uiCayoPeligroCount |-> 0]
  /\ pc' = "sim"
  /\ UNCHANGED <<ruido, prob_transicion_externa, varsQVI, vi, varsRobustez, varsMatriz, llamada>>

\* lines 200-234: one iteration of the loop; a missing policy entry breaks it
PasoSimulacion ==
  /\ pc = "sim"
  /\ sim.paso < sim.uiMaxPasos
  /\ IF sim.sEstadoActual = ESTADO_META
     THEN /\ \E e \in vec_sEstadosValidos :
               sim' = [sim EXCEPT !.paso = @ + 1, !.uiLlegoMetaCount = @ + 1,
                                  !.sEstadoActual = e]
          /\ pc' = "sim"
     ELSE IF sim.sEstadoActual \in ESTADOS_PELIGRO
     THEN /\ \E e \in vec_sEstadosValidos :
               sim' = [sim EXCEPT !.paso = @ + 1, !.uiCayoPeligroCount = @ + 1,
                                  !.sEstadoActual = e]
          /\ pc' = "sim"
     ELSE IF sim.sEstadoActual \in DOMAIN sim.ref_hm_s_sPolitica
     THEN /\ sim' = [sim EXCEPT !.paso = @ + 1,
                                !.sEstadoActual =
                                   SiguienteEstado(@, sim.ref_hm_s_sPolitica[@])]
          /\ pc' = "sim"
     ELSE /\ pc' = "sim_hecho"
          /\ UNCHANGED sim
  /\ UNCHANGED <<ruido, prob_transicion_externa, varsQVI, vi, varsRobustez, varsMatriz, llamada>>

\* lines 235-238: the loop has run uiMaxPasos times, the counters are returned
FinSimulacion ==
  /\ pc = "sim"
  /\ sim.paso = sim.uiMaxPasos
  /\ pc' = "sim_hecho"
  /\ UNCHANGED <<ruido, prob_transicion_externa, varsQVI, vi, varsRobustez, varsMatriz, llamada, sim>>

\* main.rs lines 59-61: the simulation returns to main, which holds the triple
\* of the solver and goes on with it
RetornarSimulacion ==
  /\ pc = "sim_hecho"
  /\ v_valores # <<>>
  /\ sim' = SinSimulacion
  /\ pc' = "hecho"
  /\ UNCHANGED <<ruido, prob_transicion_externa, varsQVI, vi, varsRobustez, varsMatriz, llamada>>

\* main.rs lines 43, 115 and 135: the caller is done with what its calls
\* returned, the locals of the loop body are dropped and the next call follows
SiguienteLlamada ==
  /\ \/ pc \in {"modelo", "hecho", "robustez_hecho", "matriz", "consulta"}
     \/ pc = "sim_hecho" /\ v_valores = <<>>
  /\ pc' = "inicio"
  /\ ruido' = <<>>
  /\ prob_transicion_externa' = SinModelo
  /\ lambda' = 0
  /\ epsilon' = 0
  /\ q_valores' = <<>>
  /\ delta' = 0
  /\ barridos' = 0
  /\ politica' = <<>>
  /\ v_valores' = <<>>
  /\ vi' = SinVI
  /\ politica_base' = <<>>
  /\ origen_base' = ""
  /\ indice' = 0
  /\ resultados' = <<>>
  /\ accion_matriz' = ""
  /\ matriz' = <<>>
  /\ llamada' = SinLlamada
  /\ sim' = SinSimulacion

\* the map utilities alone
NextConsultas ==
  \/ ObtenerEstado
  \/ ObtenerPosicion
  \/ Mover
  \/ MoverSimulacion
  \/ ConstruirModelo
  \/ SiguienteLlamada

Next ==
  \/ ObtenerEstado
  \/ ObtenerPosicion
  \/ Mover
  \/ MoverSimulacion
  \/ IniciarSimulacion
  \/ PasoSimulacion
  \/ FinSimulacion
  \/ RetornarSimulacion
  \/ SiguienteLlamada
  \/ ConstruirModelo
  \/ ModeloIncompleto
  \/ LlamarQVI
  \/ LlamarQVIEntera
  \/ Barrido
  \/ LlamarVI
  \/ BarridoVI
  \/ EvaluarRobustez
  \/ EvaluarRobustezVI
  \/ BarridoRobustez
  \/ SiguienteModelo
  \/ ConstruirMatriz

Spec == Init /\ [][Next]_vars

\* the calls of the utilities and of the model builder, without the solvers
SpecConsultas == Init /\ [][NextConsultas]_vars

\* ------------------------------------------------------------- properties
\* q_value_iteration has returned its triple and the driver holds it: the
\* value map is filled on return and dropped with the triple
Retornado == v_valores # <<>>

\* the sum of the values of a function with a finite domain
RECURSIVE SumaSobre(_, _)
SumaSobre(f, pendientes) ==
  IF pendientes = {}
  THEN 0
  ELSE LET k == CHOOSE x \in pendientes : TRUE
       IN  f[k] + SumaSobre(f, pendientes \ {k})

\* a model with an entry for each action whose probabilities sum to 1
DistribucionValida(modelo) ==
  /\ DOMAIN modelo = Acciones
  /\ \A a \in Acciones : SumaSobre(modelo[a], DOMAIN modelo[a]) = ProbUno

\* C1: in the triple returned after the loop has converged, the value of the
\* goal 'M' is exactly reward(goal) = 10.0 and so is every returned Q(goal, a),
\* for every lambda, epsilon and transition model.
C1_MetaExacta ==
  /\ Retornado =>
       /\ v_valores[ESTADO_META] = 10 * ESCALA
       /\ \A a \in Acciones : q_valores[ESTADO_META][a] = 10 * ESCALA
  /\ llamada.op = "q_value_iteration" =>
       /\ llamada.res.v_valores[ESTADO_META] = 10 * ESCALA
       /\ \A a \in Acciones : llamada.res.q_valores[ESTADO_META][a] = 10 * ESCALA

\* every entry a sweep from q would back up changes by at most eps
Convergido(q, modelo, lam, eps) ==
  LET q_nuevo == QNuevo(q, modelo, lam)
  IN  \A e \in EstadosActualizados, a \in Acciones :
        Abs(q[e][a] - q_nuevo[e][a]) <= eps

\* C2: for every lambda < 1, every epsilon > 0 and every model whose rows sum
\* to 1 the sweep loop terminates (the loop, which is entered again whenever
\* it has not ended, ends before MaxBarridos sweeps), and a sweep ends the loop
\* exactly when its sup-norm delta (the largest absolute change of an updated
\* entry) is <= epsilon: at the first such sweep and never earlier.
C2_TerminaEnPrimerBarridoConvergido ==
  /\ [](pc = "qvi" /\ DistribucionValida(ModeloEnUso) => barridos < MaxBarridos)
  /\ [][pc = "qvi" /\ DistribucionValida(ModeloEnUso) =>
          ((pc' = "hecho") <=> Convergido(q_valores, ModeloEnUso, lambda, epsilon))]_vars

\* the loop of lambda = 0.99, epsilon = 0.001 has ended, after more than one
\* sweep, on a delta within the threshold
C2_Testigo ==
  /\ pc = "hecho"
  /\ lambda = 99
  /\ epsilon = ESCALA \div 1000
  /\ barridos > 1
  /\ delta > 0
  /\ delta <= epsilon
  /\ q_valores[ESTADO_META]["N"] = 10 * ESCALA

\* C3: the returned policy has exactly one entry for each non-obstacle,
\* non-goal state and no entry for the goal 'M'.
C3_PoliticaSinMeta ==
  Retornado => DOMAIN politica = Estados \ {ESTADO_META}

\* C4: the solver is deterministic given its inputs: a run on the same lambda,
\* epsilon and model returns the same policy and value map whatever the
\* iteration order of the rows of its unordered tables.  The sweeps do not
\* depend on that order, so a second run returns a derivation of the same
\* table under orders of its own.
C4_Determinista ==
  pc = "hecho" =>
    \A mejores \in Derivaciones(q_valores) :
       /\ DerivarPolitica(mejores) = politica
       /\ DerivarValores(mejores) = v_valores

\* C5: a missing reward or transition-probability lookup resolves to 0.0 and
\* never fails: given a model that lacks an action or an effective direction
\* the solver still runs to completion.
C5_NuncaFalla ==
  pc /= "panic"

\* C6: for every action the probabilities over the effective directions sum
\* to 1, in the default model and in every model built by
\* construir_modelo_ruido(left, center, right) with left + center + right = 1,
\* and every such model has an entry for all four actions.
C6_ProbabilidadesSumanUno ==
  /\ DistribucionValida(prob_transicion)
  /\ (ruido /= <<>> /\ ruido[1] + ruido[2] + ruido[3] = ProbUno
        => DistribucionValida(prob_transicion_externa))

\* a model built from an asymmetric triple
C6_Testigo ==
  /\ pc = "modelo"
  /\ ruido = <<5, 85, 10>>
  /\ prob_transicion_externa["E"]["S"] = 10

\* C7: for every action in {N, S, E, O} every row of the matrix returned by
\* construir_matriz_transicion sums to 1 after folding.
C7_FilasSumanUno ==
  pc = "matriz" /\ accion_matriz \in Acciones =>
    /\ Len(matriz) = Cardinality(Estados)
    /\ \A o \in 1 .. Len(matriz) : SumaSobre(matriz[o], DOMAIN matriz[o]) = ProbUno

\* the matrix of North: the corner S0 keeps the mass of the two directions
\* that leave the map
C7_Testigo ==
  /\ pc = "matriz"
  /\ accion_matriz = "N"
  /\ matriz[EstadoAIndice("S0")][EstadoAIndice("S0")] = 90
  /\ matriz[EstadoAIndice("S0")][EstadoAIndice("S1")] = 10

\* the two value maps agree within 1e-2 on every non-obstacle state
DeAcuerdo ==
  \A e \in Estados : Abs(v_valores[e] - vi.valores[e]) <= ESCALA \div 100

\* C8 as stated: for every lambda, epsilon and model the value map of Q-value
\* iteration agrees with the value map of value iteration within 1e-2 on every
\* non-obstacle state, the goal included.
C8_AcuerdoOriginal ==
  pc = "hecho" /\ vi.estado = "hecho" => DeAcuerdo

\* C8 amended: the two value maps agree within 1e-2 when the threshold epsilon
\* is at most 1e-2.
C8_AcuerdoConUmbralFino ==
  pc = "hecho" /\ vi.estado = "hecho" /\ epsilon <= ESCALA \div 100 => DeAcuerdo

\* both solvers have run with lambda = 0.99 and epsilon = 0.01 under the
\* 70 % model and their value maps differ somewhere
C8_Testigo ==
  /\ pc = "hecho"
  /\ vi.estado = "hecho"
  /\ vi.lambda = lambda
  /\ vi.epsilon = epsilon
  /\ lambda = 99
  /\ epsilon = ESCALA \div 100
  /\ ruido = <<15, 70, 15>>
  /\ \E e \in Estados : v_valores[e] /= vi.valores[e]

\* C9: the count reported for a catalogue model is the number of states of the
\* baseline whose adapted action differs, the adapted policy being the
\* value-iteration policy under that model with the same lambda; a baseline
\* state missing from the adapted policy counts, a state missing from the
\* baseline never does.
C9_ConteoDeCambios ==
  pc \in {"robustez", "robustez_hecho"} /\ vi.estado = "hecho" =>
    /\ Len(resultados) = indice
    /\ vi.lambda = lambda
    /\ vi.modelo = ModeloCatalogo(indice)
    /\ resultados[indice][2] =
         Cardinality(DOMAIN politica_base)
         - Cardinality({k \in (DOMAIN politica_base) \cap (DOMAIN vi.politica) :
                          vi.politica[k] = politica_base[k]})

\* the evaluator has returned for a baseline that holds the goal, which the
\* adapted policies lack, and the 50 % model changed further states
C9_Testigo ==
  /\ pc = "robustez_hecho"
  /\ Len(resultados) = Len(ARR_TPL_F64X3_MODELOS_RUIDO)
  /\ ESTADO_META \in DOMAIN politica_base
  /\ ESTADO_META \notin DOMAIN vi.politica
  /\ resultados[4][2] >= 2

\* the scenario of C10: default model, lambda = 0.9, epsilon = 0.001
Escenario10 ==
  /\ lambda = 90
  /\ epsilon = ESCALA \div 1000
  /\ prob_transicion_externa = SinModelo

\* C10: on the configured 6x8 map (goal at row 3, column 4 with reward 10.0,
\* hazards -0.5, other cells -0.1) with the default model, lambda = 0.9 and
\* epsilon = 0.001 solving terminates (the loop ends before MaxBarridos sweeps),
\* V(M) = 10.0 and the policy at the cells
\* next to the goal points toward it: S15 -> S, S28 -> N, S22 -> E, S24 -> O.
C10_EscenarioConfigurado ==
  /\ (pc = "qvi" /\ Escenario10 => barridos < MaxBarridos)
  /\ (Retornado /\ Escenario10 =>
          /\ Celda(3, 4) = ESTADO_META
          /\ obtener_recompensas[ESTADO_META] = 10 * ESCALA
          /\ \A p \in ESTADOS_PELIGRO : obtener_recompensas[p] = -(ESCALA \div 2)
          /\ v_valores[ESTADO_META] = 10 * ESCALA
          /\ politica["S15"] = "S"
          /\ politica["S28"] = "N"
          /\ politica["S22"] = "E"
          /\ politica["S24"] = "O")

\* the scenario has been solved
C10_Testigo ==
  /\ pc = "hecho"
  /\ Escenario10
  /\ v_valores["S15"] > 8 * ESCALA
  /\ politica["S15"] = "S"

\* the left and right deviation of an action, as the convention names them
Izquierda(a) == IF a \in {"N", "S"} THEN "O" ELSE "N"
Derecha(a) == IF a \in {"N", "S"} THEN "E" ELSE "S"

\* C11: the model built from (left, center, right) gives, for every action,
\* center to the intended direction, left to West for N and S and to North for
\* E and O, right to East for N and S and to South for E and O, and has no
\* other entry; built from (0.1, 0.8, 0.1) it is the default model.
C11_ConvencionDeRuido ==
  ruido # <<>> =>
    /\ DOMAIN prob_transicion_externa = Acciones
    /\ \A a \in Acciones :
         /\ DOMAIN prob_transicion_externa[a] = {a, Izquierda(a), Derecha(a)}
         /\ prob_transicion_externa[a][a] = ruido[2]
         /\ prob_transicion_externa[a][Izquierda(a)] = ruido[1]
         /\ prob_transicion_externa[a][Derecha(a)] = ruido[3]
    /\ (ruido = <<10, 80, 10>> => prob_transicion_externa = prob_transicion)

C11_Testigo ==
  /\ pc = "modelo"
  /\ ruido = <<10, 80, 10>>
  /\ prob_transicion_externa = prob_transicion

\* a cell of the map
EnMapa(fila, col) == fila \in Filas /\ col \in Columnas

\* C12: obtener_estado(row, col) returns nothing exactly when (row, col) is
\* outside the 6x8 grid, negative coordinates included, or the cell is an
\* obstacle; for every other coordinate it returns the label of the cell.
C12_EstadoDeCelda ==
  llamada.op = "obtener_estado" =>
    LET fuera == ~EnMapa(llamada.fila, llamada.col)
        obstaculo == ~fuera /\ MAPA_ESTADOS[llamada.fila + 1][llamada.col + 1] \in OBSTACULOS
    IN  /\ (llamada.res = None) <=> (fuera \/ obstaculo)
        /\ (~fuera /\ ~obstaculo) =>
             llamada.res = MAPA_ESTADOS[llamada.fila + 1][llamada.col + 1]

C12_Testigo ==
  /\ llamada.op = "obtener_estado"
  /\ EnMapa(llamada.fila, llamada.col)
  /\ MAPA_ESTADOS[llamada.fila + 1][llamada.col + 1] = "O3"
  /\ llamada.res = None

\* C13: obtener_posicion(label) returns an error exactly when the label does
\* not occur in the map, the error comes back to the caller as a value (the
\* call returns, nothing aborts), and for a label of the map it returns
\* coordinates (r, c) with MAPA_ESTADOS[r][c] = label.
C13_PosicionOError ==
  llamada.op = "obtener_posicion" =>
    /\ pc = "consulta"
    /\ (~llamada.res.ok) <=>
         (\A f \in Filas, c \in Columnas : MAPA_ESTADOS[f + 1][c + 1] # llamada.estado)
    /\ llamada.res.ok =>
         /\ EnMapa(llamada.res.pos[1], llamada.res.pos[2])
         /\ MAPA_ESTADOS[llamada.res.pos[1] + 1][llamada.res.pos[2] + 1] = llamada.estado

C13_Testigo ==
  /\ pc = "consulta"
  /\ llamada.op = "obtener_posicion"
  /\ llamada.estado = "S38"
  /\ ~llamada.res.ok

\* C14: over the non-obstacle cells of the map the two lookups are inverse:
\* obtener_estado(obtener_posicion(l)) = l for every non-obstacle label l, and
\* obtener_posicion(obtener_estado(r, c)) = (r, c) for every non-obstacle cell;
\* the labels of the map are pairwise distinct and one cell carries the goal.
C14_BusquedasInversas ==
  /\ (llamada.op = "obtener_posicion" /\ llamada.estado \in Etiquetas \ OBSTACULOS) =>
        /\ llamada.res.ok
        /\ obtener_estado(llamada.res.pos[1], llamada.res.pos[2]) = llamada.estado
  /\ (llamada.op = "obtener_estado" /\ llamada.res # None) =>
        obtener_posicion(llamada.res) = [ok |-> TRUE, pos |-> <<llamada.fila, llamada.col>>]
  /\ \A p \in Filas \X Columnas, o \in Filas \X Columnas :
        Celda(p[1], p[2]) = Celda(o[1], o[2]) => p = o
  /\ Cardinality({p \in Filas \X Columnas : Celda(p[1], p[2]) = ESTADO_META}) = 1

C14_Testigo ==
  /\ llamada.op = "obtener_estado"
  /\ llamada.fila = 3
  /\ llamada.col = 4
  /\ llamada.res = ESTADO_META
  /\ obtener_posicion(llamada.res).pos = <<3, 4>>

\* the displacement of the four directions
Desplazamiento ==
  ( "N" :> <<-1, 0>> @@ "S" :> <<1, 0>> @@ "E" :> <<0, 1>> @@ "O" :> <<0, -1>> )

\* C15: mover(row, col, action) is coordinate arithmetic without bounds or
\* obstacle checks: N, S, E, O give (row-1, col), (row+1, col), (row, col+1),
\* (row, col-1) also when that is negative, past the edge or an obstacle, and
\* any other symbol gives (row, col) back.
C15_MoverEsAritmetica ==
  llamada.op = "mover" =>
    IF llamada.accion \in DOMAIN Desplazamiento
    THEN llamada.res = <<llamada.fila + Desplazamiento[llamada.accion][1],
                         llamada.col + Desplazamiento[llamada.accion][2]>>
    ELSE llamada.res = <<llamada.fila, llamada.col>>

C15_Testigo ==
  /\ llamada.op = "mover"
  /\ llamada.fila = 0
  /\ llamada.accion = "N"
  /\ llamada.res = <<-1, llamada.col>>

\* evaluar_robustez is running or has returned
EnRobustez == pc \in {"robustez", "robustez_hecho"}

\* C16: evaluar_robustez leaves the caller's baseline policy as it was handed
\* over (same keys, same actions, from the call to the return), and no solver
\* or evaluator step changes the map, the rewards, the default model or the
\* model the caller supplied; the map, the rewards and the default model are
\* constants of the program, read and never written.
C16_MarcoSinCambios ==
  /\ [][EnRobustez' =>
          (/\ (origen_base' = "qvi" => politica_base' \in PoliticasBase(politica'))
           /\ politica' = politica
           /\ (EnRobustez => politica_base' = politica_base))]_vars
  /\ [][(pc \in {"qvi", "vi", "robustez"}) =>
          (/\ prob_transicion_externa' = prob_transicion_externa
           /\ ruido' = ruido)]_vars

C16_Testigo ==
  /\ pc = "robustez_hecho"
  /\ Len(resultados) = Len(ARR_TPL_F64X3_MODELOS_RUIDO)
  /\ \E i \in 1 .. Len(resultados) : resultados[i][2] > 1
  /\ politica_base = politica

\* dest(s, d): the cell one step from s in direction d, or s itself when that
\* cell is outside the map or an obstacle
UnPaso(s, d) ==
  LET p == CHOOSE c \in Filas \X Columnas : MAPA_ESTADOS[c[1] + 1][c[2] + 1] = s
      f == p[1] + Desplazamiento[d][1]
      c == p[2] + Desplazamiento[d][2]
  IN  IF EnMapa(f, c) /\ MAPA_ESTADOS[f + 1][c + 1] \notin OBSTACULOS
      THEN MAPA_ESTADOS[f + 1][c + 1]
      ELSE s
TablaUnPaso == [s \in Estados |-> [d \in Acciones |-> UnPaso(s, d)]]

\* reward(s) + lambda * sum_d P(d|a) * max_a' Q(dest(s, d), a')
Bellman(q, modelo, lam, s, a) ==
  LET termino == [d \in DOMAIN modelo[a] |->
                    modelo[a][d] * Maximo({q[TablaUnPaso[s][d]][x] : x \in Acciones})]
  IN  obtener_recompensas[s] + Descontar(lam, SumaSobre(termino, DOMAIN termino))

\* C17: in every sweep, for every non-obstacle non-goal state s and action a,
\* the new entry is reward(s) + lambda * sum over directions d of P(d|a) *
\* max_a' Q_old(dest(s,d), a'), where dest(s,d) is the cell one step from s in
\* direction d, or s itself when that cell is out of bounds or an obstacle.
C17_RespaldoDeBellman ==
  [][(pc = "qvi" /\ pc' = "qvi") =>
       \A s \in Estados \ {ESTADO_META}, a \in Acciones :
         q_valores'[s][a] = Bellman(q_valores, ModeloEnUso, lambda, s, a)]_vars

C17_Testigo ==
  /\ pc = "qvi"
  /\ barridos = 3
  /\ lambda = 90
  /\ ruido = <<25, 50, 25>>
  /\ q_valores["S15"]["S"] > 0
  /\ q_valores["S1"]["N"] < -(ESCALA \div 10)

\* visiting orders of the states: the row-major order of the loops of lines
\* 112-113 and its reverse
Invertir(orden) == [i \in 1 .. Len(orden) |-> orden[Len(orden) + 1 - i]]
OrdenesDeVisita == {vec_sEstados, Invertir(vec_sEstados)}

\* C18: sweeps are double-buffered: every backup of a sweep reads the table
\* left by the previous sweep, never an entry written earlier in the same
\* sweep, so the table a sweep produces is the same whatever the order in
\* which the states are visited.
C18_DobleBufer ==
  [][(pc = "qvi" /\ pc' = "qvi") =>
       \A orden \in OrdenesDeVisita :
         BarridoEnOrden(q_valores, q_valores, ModeloEnUso, lambda, orden, 1) = q_valores']_vars

C18_Testigo ==
  /\ pc = "qvi"
  /\ barridos = 4
  /\ lambda = 94
  /\ q_valores["S22"]["E"] > q_valores["S21"]["E"]
  /\ q_valores["S21"]["E"] > q_valores["S20"]["E"]

\* the largest absolute difference between the Bellman backups of q and q
\* itself over the entries of the states of S
MayorCambio(q, modelo, lam, S) ==
  Maximo({0} \cup
         {Maximo({Abs(Bellman(q, modelo, lam, s, a) - q[s][a]) : a \in Acciones}) :
            s \in S})

\* C19: in every sweep the four Q(goal, a) of the new table are reward(goal),
\* not a Bellman backup, and the goal's entries do not contribute to the
\* sweep's delta: delta is the largest change over the non-goal entries, so
\* the first sweep, which moves the goal's entries from 0 to 10.0, has delta
\* 0.5 (the largest change of a non-goal entry).
C19_MetaFijadaFueraDeDelta ==
  /\ [](barridos = 1 => delta = ESCALA \div 2)
  /\ [][(pc = "qvi" /\ barridos' = barridos + 1) =>
          (/\ delta' = MayorCambio(q_valores, ModeloEnUso, lambda, Estados \ {ESTADO_META})
           /\ (pc' = "qvi" =>
                 \A a \in Acciones : q_valores'[ESTADO_META][a] = obtener_recompensas[ESTADO_META]))]_vars

C19_Testigo ==
  /\ pc = "qvi"
  /\ barridos = 1
  /\ delta = ESCALA \div 2
  /\ \A a \in Acciones : q_valores[ESTADO_META][a] = 10 * ESCALA

\* C20: in the returned triple, for every state s of the value map V(s) is
\* the maximum over the four actions of the returned Q(s, a), and the policy
\* action of s attains it: Q(s, pi(s)) = V(s).
C20_ValorYPoliticaDelMaximo ==
  /\ Retornado =>
       /\ DOMAIN politica = DOMAIN v_valores
       /\ \A s \in DOMAIN v_valores :
            /\ \A a \in Acciones : q_valores[s][a] <= v_valores[s]
            /\ politica[s] \in Acciones
            /\ q_valores[s][politica[s]] = v_valores[s]
  /\ llamada.op = "q_value_iteration" =>
       /\ DOMAIN llamada.res.politicas = DOMAIN llamada.res.v_valores
       /\ \A s \in DOMAIN llamada.res.v_valores :
            /\ \A a \in Acciones : llamada.res.q_valores[s][a] <= llamada.res.v_valores[s]
            /\ llamada.res.politicas[s] # {}
            /\ \A a \in llamada.res.politicas[s] :
                 a \in Acciones /\ llamada.res.q_valores[s][a] = llamada.res.v_valores[s]

\* a returned triple whose goal row, four equal entries, was read West first
C20_Testigo ==
  /\ pc = "hecho"
  /\ politica[ESTADO_META] = "O"
  /\ q_valores[ESTADO_META]["N"] = v_valores[ESTADO_META]
  /\ lambda = 90
  /\ epsilon = ESCALA \div 1000
  /\ politica["S22"] = "E"
  /\ q_valores["S22"]["E"] = v_valores["S22"]
  /\ q_valores["S22"]["O"] < v_valores["S22"]

\* the solver holds a Q-table: it is running or has returned
ConTablaQ == pc = "qvi" \/ Retornado

\* C21: the Q-table starts with Q(s, a) = 0 for every non-obstacle state and
\* action; at every sweep and on return its keys are exactly the 38
\* non-obstacle states times the 4 actions; no obstacle label is a key of the
\* Q-table, the value map or the policy, or a state a sweep backs up.
C21_ClavesDeLaTablaQ ==
  /\ ConTablaQ =>
       /\ DOMAIN q_valores = {MAPA_ESTADOS[f + 1][c + 1] : f \in Filas, c \in Columnas} \ OBSTACULOS
       /\ Cardinality(DOMAIN q_valores) = 38
       /\ \A e \in DOMAIN q_valores : DOMAIN q_valores[e] = {"N", "S", "E", "O"}
       /\ \A i \in 1 .. Len(vec_sEstados) : vec_sEstados[i] \notin OBSTACULOS
  /\ (pc = "qvi" /\ barridos = 0) =>
       \A e \in DOMAIN q_valores : \A a \in DOMAIN q_valores[e] : q_valores[e][a] = 0
  /\ Retornado =>
       /\ DOMAIN politica \cap OBSTACULOS = {}
       /\ DOMAIN v_valores \cap OBSTACULOS = {}
  /\ llamada.op = "q_value_iteration" =>
       /\ DOMAIN llamada.res.q_valores = {MAPA_ESTADOS[f + 1][c + 1] : f \in Filas, c \in Columnas} \ OBSTACULOS
       /\ \A e \in DOMAIN llamada.res.q_valores : DOMAIN llamada.res.q_valores[e] = {"N", "S", "E", "O"}
       /\ DOMAIN llamada.res.politicas \cap OBSTACULOS = {}
       /\ DOMAIN llamada.res.v_valores \cap OBSTACULOS = {}

C21_Testigo ==
  /\ pc = "hecho"
  /\ barridos > 5
  /\ Cardinality(DOMAIN q_valores) = 38
  /\ "O5" \notin DOMAIN q_valores
  /\ q_valores["S15"]["S"] > 0

\* the labels of the map read row by row, and those that are no obstacle
MapaAplanado ==
  [k \in 1 .. (FILAS_MAPA * COLUMNAS_MAPA) |->
     MAPA_ESTADOS[((k - 1) \div COLUMNAS_MAPA) + 1][((k - 1) % COLUMNAS_MAPA) + 1]]
NoEsObstaculo(e) == e \notin OBSTACULOS
EnumeracionFilaMayor == SelectSeq(MapaAplanado, NoEsObstaculo)

\* the probability of the directions of `accion` that lead from origen to destino
MasaHacia(accion, origen, destino) ==
  LET llegan == {d \in DOMAIN prob_transicion[accion] : TablaUnPaso[origen][d] = destino}
  IN  SumaSobre(prob_transicion[accion], llegan)

\* C22: the matrix of an action is indexed, rows and columns, by the row-major
\* enumeration of the 38 non-obstacle states, and entry [origin][dest] is the
\* sum of P(d | action) over the directions d whose destination from origin is
\* dest, a move out of bounds or into an obstacle having destination origin;
\* the mass of directions that fold onto the same cell is added.
C22_EntradasDeLaMatriz ==
  (pc = "matriz" /\ accion_matriz \in Acciones) =>
    /\ Len(EnumeracionFilaMayor) = 38
    /\ DOMAIN matriz = 1 .. 38
    /\ \A o \in 1 .. 38 :
         /\ DOMAIN matriz[o] = 1 .. 38
         /\ \A d \in 1 .. 38 :
              matriz[o][d] =
                MasaHacia(accion_matriz, EnumeracionFilaMayor[o], EnumeracionFilaMayor[d])

\* the matrix of South: the corner S32 has the map's edge below and to its
\* left and the obstacle O9 to its right, and keeps the mass of all three
C22_Testigo ==
  /\ pc = "matriz"
  /\ accion_matriz = "S"
  /\ EnumeracionFilaMayor[33] = "S32"
  /\ matriz[33][33] = ProbUno

\* simulacion_1000_pasos is running or has returned
EnSimulacion == pc \in {"sim", "sim_hecho"}

\* C23: the simulation performs at most uiMaxPasos steps; at every step the
\* current state is a non-obstacle cell of the map; a step on the goal adds
\* exactly one to the goal counter, a step on a hazard exactly one to the
\* hazard counter, and in both cases the next state is a valid start state
\* (neither goal nor obstacle); any other step leaves the counters alone; so
\* goals + hazards <= steps <= uiMaxPasos.
C23_PasosYContadores ==
  /\ [](EnSimulacion =>
          /\ sim.paso <= sim.uiMaxPasos
          /\ sim.sEstadoActual \in Etiquetas \ OBSTACULOS
          /\ sim.uiLlegoMetaCount + sim.uiCayoPeligroCount <= sim.paso)
  /\ [][(pc = "sim" /\ sim' # sim) =>
          (/\ sim'.paso = sim.paso + 1
           /\ sim'.uiLlegoMetaCount =
                sim.uiLlegoMetaCount + (IF sim.sEstadoActual = ESTADO_META THEN 1 ELSE 0)
           /\ sim'.uiCayoPeligroCount =
                sim.uiCayoPeligroCount + (IF sim.sEstadoActual \in ESTADOS_PELIGRO THEN 1 ELSE 0)
           /\ (sim.sEstadoActual \in ESTADOS_PELIGRO \cup {ESTADO_META} =>
                 /\ sim'.sEstadoActual # ESTADO_META
                 /\ sim'.sEstadoActual \in Etiquetas \ OBSTACULOS))]_vars

\* a walk under a policy the solver returned, once on the goal and once on a
\* hazard
C23_Testigo ==
  /\ pc = "sim_hecho"
  /\ sim.ref_hm_s_sPolitica = politica
  /\ sim.paso = sim.uiMaxPasos
  /\ sim.uiLlegoMetaCount = 1
  /\ sim.uiCayoPeligroCount = 1

\* the state reached from `estado` when a mover's result is looked up with
\* fallback to `estado`
Plegado(nueva, estado) ==
  LET e == obtener_estado(nueva[1], nueva[2]) IN IF e = None THEN estado ELSE e

\* C27: the simulation's mover, which clamps at row 0 and column 0, and the
\* solver's mover, which does not, give the same next state once folded: for
\* every non-obstacle state s at (r, c) and every action symbol, looking up
\* either result with fallback to s yields the same state.
C27_MoversEquivalentes ==
  (/\ llamada.op = "mover_simulacion"
   /\ EnMapa(llamada.fila, llamada.col)
   /\ MAPA_ESTADOS[llamada.fila + 1][llamada.col + 1] \notin OBSTACULOS) =>
    LET s == MAPA_ESTADOS[llamada.fila + 1][llamada.col + 1]
    IN  Plegado(llamada.res, s) = Plegado(mover(llamada.fila, llamada.col, llamada.accion), s)

C27_Testigo ==
  /\ llamada.op = "mover_simulacion"
  /\ llamada.fila = 0
  /\ llamada.col = 1
  /\ llamada.accion = "N"
  /\ llamada.res = <<0, 1>>
  /\ mover(llamada.fila, llamada.col, llamada.accion) = <<-1, 1>>
  /\ Plegado(llamada.res, "S1") = "S1"

\* C24: the returned Q-table is the table from before the converging sweep,
\* not the one that sweep computed, and it is epsilon-consistent: for every
\* non-goal state s and action a the returned Q(s, a) differs from the
\* Bellman backup of the returned table at (s, a) by at most epsilon.
C24_TablaAnteriorConsistente ==
  /\ [](pc = "hecho" =>
          \A s \in Estados \ {ESTADO_META}, a \in Acciones :
            Abs(q_valores[s][a] - Bellman(q_valores, ModeloEnUso, lambda, s, a)) <= epsilon)
  /\ [](llamada.op = "q_value_iteration" =>
          LET modelo == IF llamada.prob_transicion_externa = SinModelo
                        THEN prob_transicion
                        ELSE llamada.prob_transicion_externa
          IN  \A s \in Estados \ {ESTADO_META}, a \in Acciones :
                Abs(llamada.res.q_valores[s][a]
                    - Bellman(llamada.res.q_valores, modelo, llamada.lambda, s, a)) <= llamada.epsilon)
  /\ [][(pc = "qvi" /\ pc' = "hecho") =>
          (/\ q_valores' = q_valores
           /\ (delta' > 0 =>
                 \E s \in Estados \ {ESTADO_META}, a \in Acciones :
                   q_valores'[s][a] # Bellman(q_valores, ModeloEnUso, lambda, s, a)))]_vars

C24_Testigo ==
  /\ pc = "hecho"
  /\ lambda = 94
  /\ epsilon = ESCALA \div 100
  /\ barridos > 2
  /\ delta > 0
  /\ q_valores["S22"]["E"] # Bellman(q_valores, ModeloEnUso, lambda, "S22", "E")

\* C25: the folded destination is always a solver state: for every
\* non-obstacle state s and direction d in {N, S, E, O}, dest(s, d) is a
\* non-obstacle state that is a key of the Q-table and of the matrix index, so
\* the 0.0 fallback for an unknown destination is never taken and the matrix
\* builder's index lookup never fails.
C25_DestinoEsEstado ==
  /\ ConTablaQ =>
       \A s \in DOMAIN q_valores, d \in {"N", "S", "E", "O"} :
         /\ EstadoDestino(s, d) \in DOMAIN q_valores
         /\ EstadoDestino(s, d) \notin OBSTACULOS
  /\ pc = "matriz" =>
       \A o \in 1 .. Len(vec_sEstados), d \in {"N", "S", "E", "O"} :
         \E i \in 1 .. Len(vec_sEstados) :
           vec_sEstados[i] = DestinoMatriz(vec_sEstados[o], d)

C25_Testigo ==
  /\ pc = "qvi"
  /\ barridos = 2
  /\ EstadoDestino("S14", "E") = "S14"
  /\ EstadoDestino("S0", "N") = "S0"
  /\ EstadoDestino("S22", "E") = ESTADO_META

\* C26: the count reported for the catalogue entry (0.1, 0.8, 0.1) when the
\* baseline is the value-iteration policy under the default model.  It is
\* decided by whether two calls of value_iteration on equal models return the
\* same action in every state, ties included; value_iteration is not part of
\* the sources, so no property is stated for it here.
====
